---- MODULE Spec2Model ----
(***************************************************************************)
(* Model of src/commands/upload_dsym.rs: the batched discovery iterator    *)
(* (BatchIter), the match record (DSymRef) and the part of execute that    *)
(* consumes the batches.                                                   *)
(*                                                                         *)
(* The file system is the environment.  Every directory entry and every    *)
(* archive entry is read by the code once, in walk order, so its content   *)
(* is drawn when the code first reads it and is then appended to `walked`, *)
(* the part of the scanned trees seen so far.  An archive entry the code   *)
(* reads again is answered from `walked`.                                  *)
(***************************************************************************)
EXTENDS Integers, Sequences, FiniteSets, TLC

\* ------------------------------------------------------------ constants
\* const BATCH_SIZE: usize = 12
BATCH_SIZE == 12

\* open_zip_index: !0 means "no archive is being scanned".  The code never
\* does arithmetic on !0, so the sentinel is modelled by -1.
NoIndex == -1

\* ------------------------------------------------------------ bounds
\* Entries (directory entries and archive entries) other than bulk files a
\* run may read, in a run without bulk files.
MaxItems == 3
\* The same in a run that may read bulk files.
MaxBulkItems == 1
\* Bulk files: files (or archive entries) that each embed one identifier of
\* their own.  A run can read that many of them.
NumFill == 13
\* Root paths given to execute.
MaxRoots == 2

\* ------------------------------------------------------------ identifiers
\* Identifiers 1, 2, 3 are U1, U2, U3; the bulk files embed 4, 5, ...
NamedUuids == {1, 2, 3}
FillUuid(n) == Cardinality(NamedUuids) + n

NoneOpt == [some |-> FALSE, v |-> {}]
SomeOpt(s) == [some |-> TRUE, v |-> s]

\* --uuid: absent, or a non-empty set of identifiers.
TargetChoices == {NoneOpt, SomeOpt({1, 2}), SomeOpt({3})}

\* What macho::get_uuids_for_path / get_uuids_for_reader answer.
OkRes(s) == [t |-> "ok", u |-> s]
NoMacho == [t |-> "nomacho", u |-> {}]
Fatal == [t |-> "fatal", u |-> {}]
UuidSets == {{}, {1}, {2}, {1, 2}, {3}}
Results == {NoMacho, Fatal} \cup {OkRes(s) : s \in UuidSets}

\* Directory entries.  k: "dir" a directory; "ioerr" an entry whose walk
\* result, metadata or open fails; "file" a regular file that does not start
\* with the zip magic; "zip" one that does and that ZipArchive::new accepts;
\* "badzip" one that does and that ZipArchive::new rejects.  r is the
\* extractor's answer for the file, ck whether its checksum can be computed.
Item(k, r, ck) == [k |-> k, r |-> r, ck |-> ck]
DirItems ==
    {Item("dir", NoMacho, TRUE), Item("ioerr", NoMacho, TRUE),
     Item("zip", NoMacho, TRUE), Item("badzip", NoMacho, TRUE),
     Item("file", OkRes({1}), FALSE)}
    \cup {Item("file", r, TRUE) : r \in Results}
\* Archive entries.  "badentry": by_index fails.
EntryItems ==
    {Item("badentry", NoMacho, TRUE), Item("entry", OkRes({1}), FALSE)}
    \cup {Item("entry", r, TRUE) : r \in Results}
FillItem(k, n) == Item(k, OkRes({FillUuid(n)}), TRUE)
RootItem == Item("root", NoMacho, TRUE)

\* The runs explored: with archive descent on, MaxItems entries, or
\* MaxBulkItems entries and the bulk files; with archive descent off, where
\* a file is only ever a plain file, one entry fewer.
Profiles ==
    {[zips |-> TRUE, items |-> MaxItems, fill |-> 0],
     [zips |-> TRUE, items |-> MaxBulkItems, fill |-> NumFill],
     [zips |-> FALSE, items |-> MaxItems - 1, fill |-> 0],
     [zips |-> FALSE, items |-> MaxBulkItems - 1, fill |-> NumFill]}

VARIABLES
    find_uuids,      \* execute: Option<HashSet<Uuid>> of --uuid
    zips,            \* execute: !no_zips
    found_uuids,     \* execute: the Found-Identifiers Set
    pc,              \* execute / BatchIter::next: position
    wdDone,          \* BatchIter.wd_iter (Fuse) has returned None
    open_zip,        \* BatchIter.open_zip: the shared cell, Option<archive>
    open_zip_index,  \* BatchIter.open_zip_index
    zipEnts,         \* the open archive: indexes in walked of its entries read so far
    zipEnd,          \* the open archive: all its entries have been read
    batch,           \* BatchIter::next: let mut batch
    ret,             \* what the last pull returned
    batch_num,       \* execute: batch_num
    all_dsym_checksums, \* execute: all_dsym_checksums
    outcome,         \* execute: its result
    walked,          \* the entries of the scanned trees read so far
    itemsLeft,       \* entries the environment may still present
    fillLeft,        \* bulk files the environment may still present
    nRoots,          \* root paths taken so far
    nExamined,       \* how many times an entry has been examined
    lastPush,        \* the call of push_ref in the step just taken
    yieldLog,        \* the batches yielded so far
    packaged,        \* the reads add_to_archive did in the step just taken
    answer,          \* what find_missing_dsym_checksums answered in that step
    uploaded         \* the sources uploaded so far

vars == <<find_uuids, zips, found_uuids, pc, wdDone, open_zip, open_zip_index,
          zipEnts, zipEnd, batch, ret, batch_num, all_dsym_checksums, outcome,
          walked, itemsLeft, fillLeft, nRoots, nExamined, lastPush, yieldLog,
          packaged, answer, uploaded>>

\* ------------------------------------------------------------ BatchIter
NoZip == [some |-> FALSE, gen |-> 0]
NoPush == [called |-> FALSE, kept |-> FALSE, uuids |-> {}, before |-> {}]

\* DSymRef.  var/idx are DSymVar; src is the file or entry the record was
\* built from (for FsFile, its path); gen is the archive (open period) in
\* which a ZipFile record was found.  The checksum of a source is determined
\* by its content.
FsRef(src, uuids) ==
    [var |-> "FsFile", idx |-> NoIndex, gen |-> 0, src |-> src,
     uuids |-> uuids, checksum |-> uuids]
ZipRef(gen, idx, src, uuids) ==
    [var |-> "ZipFile", idx |-> idx, gen |-> gen, src |-> src,
     uuids |-> uuids, checksum |-> uuids]

\* found_all with a fault: the early-stop test is left out.
found_all_never == FALSE

found_all ==
    IF find_uuids.some THEN find_uuids.v \subseteq found_uuids ELSE FALSE

\* should_push with a fault: a record is kept only if all its identifiers are new.
should_push_all(found, uuids) == \A u \in uuids : u \notin found

\* should_push with a fault: every record is kept.
should_push_always(found, uuids) == TRUE

should_push(found, uuids) == \E u \in uuids : u \notin found

\* push_ref with a fault: the batch is full only above BATCH_SIZE.
push_ref_gt(found, b, ref) ==
    LET nb == IF should_push(found, ref.uuids) THEN Append(b, ref) ELSE b
    IN  <<found \cup ref.uuids, nb, Len(nb) > BATCH_SIZE>>

\* push_ref with a fault: the identifiers of a kept record are not added to
\* the Found-Identifiers Set.
push_ref_forget(found, b, ref) ==
    LET nb == IF should_push(found, ref.uuids) THEN Append(b, ref) ELSE b
    IN  <<found, nb, Len(nb) >= BATCH_SIZE>>

\* push_ref: <<found_uuids after, batch after, batch.len() >= BATCH_SIZE>>
push_ref(found, b, ref) ==
    LET nb == IF should_push(found, ref.uuids) THEN Append(b, ref) ELSE b
    IN  <<found \cup ref.uuids, nb, Len(nb) >= BATCH_SIZE>>

\* uuid_match! with a fault: with targets, a file matches only if it embeds all
\* of them.
uuid_match_superset(r) ==
    IF r.t = "ok"
    THEN IF find_uuids.some
         THEN IF find_uuids.v \subseteq r.u
              THEN [m |-> "some", u |-> r.u] ELSE [m |-> "none", u |-> {}]
         ELSE IF r.u # {}
              THEN [m |-> "some", u |-> r.u] ELSE [m |-> "none", u |-> {}]
    ELSE IF r.t = "nomacho"
         THEN [m |-> "none", u |-> {}] ELSE [m |-> "err", u |-> {}]

\* uuid_match! with a fault: every error of the extractor is returned.
uuid_match_strict(r) ==
    IF r.t = "ok"
    THEN IF find_uuids.some
         THEN IF r.u \cap find_uuids.v # {}
              THEN [m |-> "some", u |-> r.u] ELSE [m |-> "none", u |-> {}]
         ELSE IF r.u # {}
              THEN [m |-> "some", u |-> r.u] ELSE [m |-> "none", u |-> {}]
    ELSE [m |-> "err", u |-> {}]

\* uuid_match! with a fault: the target set is not consulted.
uuid_match_any(r) ==
    IF r.t = "ok"
    THEN IF r.u # {}
         THEN [m |-> "some", u |-> r.u] ELSE [m |-> "none", u |-> {}]
    ELSE IF r.t = "nomacho"
         THEN [m |-> "none", u |-> {}] ELSE [m |-> "err", u |-> {}]

\* uuid_match!: "some" with the identifiers, "none" (skip) or "err".
uuid_match(r) ==
    IF r.t = "ok"
    THEN IF find_uuids.some
         THEN IF r.u \cap find_uuids.v # {}
              THEN [m |-> "some", u |-> r.u] ELSE [m |-> "none", u |-> {}]
         ELSE IF r.u # {}
              THEN [m |-> "some", u |-> r.u] ELSE [m |-> "none", u |-> {}]
    ELSE IF r.t = "nomacho"
         THEN [m |-> "none", u |-> {}] ELSE [m |-> "err", u |-> {}]

\* No find_missing_dsym_checksums answer.
NoAnswer == [given |-> FALSE, missing |-> {}]

\* The step is not one of lines 400-407.
NotPackaging == packaged' = <<>> /\ answer' = NoAnswer

BatchResult(b) == IF Len(b) = 0 THEN "none" ELSE "ok"

\* The pull returns: lines 232-237, and the error returns of iter_try! and
\* uuid_match!.
Return(b) ==
    /\ NotPackaging
    /\ pc' = "ret"
    /\ ret' = BatchResult(b)
    /\ batch' = b
    /\ yieldLog' = IF Len(b) = 0 THEN yieldLog ELSE Append(yieldLog, b)

ReturnErr ==
    /\ NotPackaging
    /\ pc' = "ret"
    /\ ret' = "err"
    /\ batch' = <<>>
    /\ yieldLog' = yieldLog

Continue(b) ==
    /\ NotPackaging
    /\ pc' = "loop"
    /\ ret' = ret
    /\ batch' = b
    /\ yieldLog' = yieldLog

\* The entries the environment may present next: any of `items` while the
\* run's budget of entries lasts, and the next bulk file (kind k).
Candidates(items, k) ==
    (IF itemsLeft > 0 THEN items ELSE {})
    \cup (IF fillLeft > 0 THEN {FillItem(k, NumFill - fillLeft + 1)} ELSE {})

IsFill(it) == it.r.t = "ok" /\ it.r.u # {} /\ it.r.u \cap NamedUuids = {}

\* The bulk files of a run are consecutive entries of one directory walk or
\* of one archive: anything else the environment presents ends them.
EndFill == IF fillLeft < NumFill THEN 0 ELSE fillLeft

Spend(it) ==
    /\ itemsLeft' = IF IsFill(it) THEN itemsLeft ELSE itemsLeft - 1
    /\ fillLeft' = IF IsFill(it) THEN fillLeft - 1 ELSE EndFill

EndSeen ==
    /\ itemsLeft' = itemsLeft
    /\ fillLeft' = EndFill

NoSpend == UNCHANGED <<itemsLeft, fillLeft>>

ExecVars == <<find_uuids, zips, batch_num, all_dsym_checksums, outcome, nRoots,
              uploaded>>

\* What the loop body does with a file or an archive entry `it` whose record
\* would be `ref`: uuid_match! on the extractor's answer, then the record's
\* fields (by_index / File::open and get_sha1_checksum under iter_try!),
\* then push_ref.  o: "err" the pull returns the error, "skip" the entry is
\* not eligible, "push" push_ref was called.
Examine(it, ref) ==
    LET m == uuid_match(it.r)
        p == push_ref(found_uuids, batch, ref)
    IN  IF it.k = "badentry" \/ m.m = "err" \/ (m.m = "some" /\ ~it.ck)
        THEN [o |-> "err", found |-> found_uuids, batch |-> batch, full |-> FALSE]
        ELSE IF m.m = "none"
        THEN [o |-> "skip", found |-> found_uuids, batch |-> batch, full |-> FALSE]
        ELSE [o |-> "push", found |-> p[1], batch |-> p[2], full |-> p[3]]

PushOf(e, ref) ==
    IF e.o = "push"
    THEN [called |-> TRUE, kept |-> e.batch # batch, uuids |-> ref.uuids,
          before |-> found_uuids]
    ELSE NoPush

\* while !self.found_all(): the condition fails, the pull returns.
LoopFoundAll ==
    /\ pc = "loop"
    /\ found_all
    /\ Return(batch)
    /\ lastPush' = NoPush
    /\ NoSpend
    /\ UNCHANGED <<found_uuids, wdDone, open_zip, open_zip_index, zipEnts,
                   zipEnd, walked, nExamined>>
    /\ UNCHANGED ExecVars

\* ZipExhausted with a fault: the pending batch is not yielded when the archive
\* is exhausted.
ZipExhaustedNoYield ==
    /\ pc = "loop"
    /\ ~found_all
    /\ open_zip_index # NoIndex
    /\ open_zip_index >= Len(zipEnts)
    /\ zipEnd' = TRUE
    /\ open_zip_index' = NoIndex
    /\ Continue(batch)
    /\ lastPush' = NoPush
    /\ EndSeen
    /\ UNCHANGED <<found_uuids, wdDone, open_zip, zipEnts, walked, nExamined>>
    /\ UNCHANGED ExecVars

\* Lines 163-173: the open archive has no entry at open_zip_index.
ZipExhausted ==
    /\ pc = "loop"
    /\ ~found_all
    /\ open_zip_index # NoIndex
    /\ open_zip_index >= Len(zipEnts)
    /\ zipEnd' = TRUE
    /\ open_zip_index' = NoIndex
    /\ IF Len(batch) # 0 THEN Return(batch) ELSE Continue(batch)
    /\ lastPush' = NoPush
    /\ EndSeen
    /\ UNCHANGED <<found_uuids, wdDone, open_zip, zipEnts, walked, nExamined>>
    /\ UNCHANGED ExecVars

\* Lines 174-191: the entry at open_zip_index of the open archive.
ZipEntryStep(it, src) ==
    LET ref == ZipRef(open_zip.gen, open_zip_index, src, it.r.u)
        e == Examine(it, ref)
    IN  /\ found_uuids' = e.found
        /\ lastPush' = PushOf(e, ref)
        /\ IF e.o = "err"
           THEN ReturnErr /\ open_zip_index' = open_zip_index
           ELSE IF e.full
           THEN Return(e.batch) /\ open_zip_index' = open_zip_index
           ELSE Continue(e.batch) /\ open_zip_index' = open_zip_index + 1

ZipEntry ==
    /\ pc = "loop"
    /\ ~found_all
    /\ open_zip_index # NoIndex
    /\ \/ /\ open_zip_index < Len(zipEnts)
          /\ ZipEntryStep(walked[zipEnts[open_zip_index + 1]],
                          zipEnts[open_zip_index + 1])
          /\ NoSpend
          /\ UNCHANGED <<walked, zipEnts>>
       \/ /\ open_zip_index = Len(zipEnts)
          /\ ~zipEnd
          /\ \E it \in Candidates(EntryItems, "entry") :
                /\ Spend(it)
                /\ walked' = Append(walked, it)
                /\ zipEnts' = Append(zipEnts, Len(walked) + 1)
                /\ ZipEntryStep(it, Len(walked) + 1)
    /\ nExamined' = nExamined + 1
    /\ UNCHANGED <<wdDone, open_zip, zipEnd>>
    /\ UNCHANGED ExecVars

\* Lines 159-161: in DirectoryScan every iteration first empties the cell.
CloseZip ==
    /\ open_zip' = NoZip
    /\ zipEnts' = <<>>
    /\ zipEnd' = FALSE

\* OpenZip with a fault: the pending batch is not yielded when an archive is
\* opened.
OpenZipNoYield(it, src) ==
    IF it.k = "zip"
    THEN /\ open_zip' = [some |-> TRUE, gen |-> src]
         /\ zipEnts' = <<>>
         /\ zipEnd' = FALSE
         /\ open_zip_index' = 0
         /\ Continue(batch)
    ELSE /\ CloseZip
         /\ open_zip_index' = NoIndex
         /\ Continue(batch)

\* OpenZip with a fault: an archive that cannot be opened is an error
\* (iter_try! instead of if let Ok).
OpenZipStrict(it, src) ==
    IF it.k = "zip"
    THEN /\ open_zip' = [some |-> TRUE, gen |-> src]
         /\ zipEnts' = <<>>
         /\ zipEnd' = FALSE
         /\ open_zip_index' = 0
         /\ IF Len(batch) > 0 THEN Return(batch) ELSE Continue(batch)
    ELSE /\ CloseZip
         /\ open_zip_index' = NoIndex
         /\ ReturnErr

\* Lines 199-210: a file that starts with the zip magic, archive descent on.
OpenZip(it, src) ==
    IF it.k = "zip"
    THEN /\ open_zip' = [some |-> TRUE, gen |-> src]
         /\ zipEnts' = <<>>
         /\ zipEnd' = FALSE
         /\ open_zip_index' = 0
         /\ IF Len(batch) > 0 THEN Return(batch) ELSE Continue(batch)
    ELSE /\ CloseZip
         /\ open_zip_index' = NoIndex
         /\ Continue(batch)

\* Lines 192-226: the next entry of the directory walk.
DirEntryStep(it, src) ==
    LET ref == FsRef(src, it.r.u)
        e == Examine(it, ref)
    IN  IF it.k = "ioerr"
        THEN /\ ReturnErr /\ CloseZip
             /\ UNCHANGED <<found_uuids, open_zip_index>>
             /\ lastPush' = NoPush
        ELSE IF it.k = "dir"
        THEN /\ Continue(batch) /\ CloseZip
             /\ UNCHANGED <<found_uuids, open_zip_index>>
             /\ lastPush' = NoPush
        ELSE IF zips /\ it.k \in {"zip", "badzip"}
        THEN /\ OpenZip(it, src)
             /\ UNCHANGED found_uuids
             /\ lastPush' = NoPush
        ELSE /\ CloseZip
             /\ open_zip_index' = NoIndex
             /\ found_uuids' = e.found
             /\ lastPush' = PushOf(e, ref)
             /\ IF e.o = "err" THEN ReturnErr
                ELSE IF e.full THEN Return(e.batch) ELSE Continue(e.batch)

DirEntry ==
    /\ pc = "loop"
    /\ ~found_all
    /\ open_zip_index = NoIndex
    /\ ~wdDone
    /\ \E it \in Candidates(DirItems, "file") :
          /\ Spend(it)
          /\ walked' = Append(walked, it)
          /\ DirEntryStep(it, Len(walked) + 1)
    /\ nExamined' = nExamined + 1
    /\ UNCHANGED wdDone
    /\ UNCHANGED ExecVars

\* WalkEnd with a fault: wd_iter is not fused, the walk may present entries
\* after it has ended.
WalkEndNotFused ==
    /\ pc = "loop"
    /\ ~found_all
    /\ open_zip_index = NoIndex
    /\ walked[Len(walked)] # RootItem
    /\ wdDone' = FALSE
    /\ CloseZip
    /\ Return(batch)
    /\ lastPush' = NoPush
    /\ NoSpend
    /\ UNCHANGED <<found_uuids, open_zip_index, walked, nExamined>>
    /\ UNCHANGED ExecVars

\* Lines 227-229: the walk has no further entry (wd_iter is fused).  A walk
\* yields its root first, so it does not end before its first entry.
WalkEnd ==
    /\ pc = "loop"
    /\ ~found_all
    /\ open_zip_index = NoIndex
    /\ walked[Len(walked)] # RootItem
    /\ wdDone' = TRUE
    /\ CloseZip
    /\ Return(batch)
    /\ lastPush' = NoPush
    /\ EndSeen
    /\ UNCHANGED <<found_uuids, open_zip_index, walked, nExamined>>
    /\ UNCHANGED ExecVars

\* ------------------------------------------------------------ packaging
\* DSymRef::add_to_archive: the source whose bytes are copied.  A ZipFile
\* record reads entry idx of whatever archive the shared cell holds now;
\* by_index or the copy fails when that archive has no readable entry idx.
add_to_archive(r) ==
    IF r.var = "FsFile"
    THEN [res |-> "read", src |-> r.src, gen |-> 0]
    ELSE IF ~open_zip.some
    THEN [res |-> "panic", src |-> 0, gen |-> 0]
    ELSE IF /\ r.idx < Len(zipEnts)
            /\ walked[zipEnts[r.idx + 1]].k # "badentry"
            /\ walked[zipEnts[r.idx + 1]].ck
    THEN [res |-> "read", src |-> zipEnts[r.idx + 1], gen |-> open_zip.gen]
    ELSE [res |-> "error", src |-> 0, gen |-> open_zip.gen]

\* find_missing_files with a fault: the server's answer is not applied.
find_missing_files_all(refs, missing) == refs

\* find_missing_files: the records whose checksum the server reports missing.
find_missing_files(refs, missing) ==
    SelectSeq(refs, LAMBDA r : r.checksum \in missing)

Checksums(refs) == {refs[i].checksum : i \in 1..Len(refs)}

\* Answers of api.find_missing_dsym_checksums the model tries.
MissingChoices(refs) ==
    {Checksums(refs), {}, {refs[1].checksum}, Checksums(refs) \ {refs[1].checksum}}

\* zip_up_missing: add_to_archive on each record in order, up to the first
\* that does not read.
RECURSIVE zip_up_missing(_)
zip_up_missing(refs) ==
    IF Len(refs) = 0 THEN <<>>
    ELSE LET a == add_to_archive(Head(refs))
         IN  IF a.res = "read"
             THEN <<[rec |-> Head(refs), read |-> a]>> \o zip_up_missing(Tail(refs))
             ELSE <<[rec |-> Head(refs), read |-> a]>>

Running == [status |-> "running", require_all |-> FALSE, reported |-> {}]
Failed == [status |-> "failed", require_all |-> FALSE, reported |-> {}]
Panicked == [status |-> "panic", require_all |-> FALSE, reported |-> {}]

IterVars == <<found_uuids, wdDone, open_zip, open_zip_index, zipEnts, zipEnd,
              walked, nExamined, yieldLog>>

\* ------------------------------------------------------------ execute
\* Lines 385-388: the next root path, BatchIter::new and the first pull.
NextPath ==
    /\ pc = "paths"
    /\ nRoots < MaxRoots
    /\ itemsLeft + fillLeft > 0
    /\ nRoots' = nRoots + 1
    /\ walked' = Append(walked, RootItem)
    /\ wdDone' = FALSE
    /\ open_zip' = NoZip
    /\ open_zip_index' = NoIndex
    /\ zipEnts' = <<>>
    /\ zipEnd' = FALSE
    /\ batch' = <<>>
    /\ ret' = "-"
    /\ pc' = "loop"
    /\ lastPush' = NoPush
    /\ NoSpend
    /\ NotPackaging
    /\ UNCHANGED <<find_uuids, zips, found_uuids, batch_num, all_dsym_checksums,
                   outcome, nExamined, yieldLog, uploaded>>

\* The pull returned None: the for loop over this iterator ends.
IterEnd ==
    /\ pc = "ret"
    /\ ret = "none"
    /\ pc' = "paths"
    /\ lastPush' = NoPush
    /\ NotPackaging
    /\ NoSpend
    /\ UNCHANGED <<batch, ret>>
    /\ UNCHANGED IterVars
    /\ UNCHANGED ExecVars

\* PullFailed with a fault: the error is skipped and the iterator pulled again.
PullFailedContinue ==
    /\ pc = "ret"
    /\ ret = "err"
    /\ batch_num' = batch_num + 1
    /\ outcome' = outcome
    /\ pc' = "loop"
    /\ lastPush' = NoPush
    /\ NoSpend
    /\ UNCHANGED <<batch, ret>>
    /\ UNCHANGED IterVars
    /\ NotPackaging
    /\ UNCHANGED <<find_uuids, zips, all_dsym_checksums, nRoots, uploaded>>

\* Lines 389-393: the pull returned an error; batch_res? ends execute.
PullFailed ==
    /\ pc = "ret"
    /\ ret = "err"
    /\ batch_num' = batch_num + 1
    /\ outcome' = Failed
    /\ pc' = "done"
    /\ lastPush' = NoPush
    /\ NoSpend
    /\ UNCHANGED <<batch, ret>>
    /\ UNCHANGED IterVars
    /\ NotPackaging
    /\ UNCHANGED <<find_uuids, zips, all_dsym_checksums, nRoots, uploaded>>

\* Lines 389-417 for a batch: find_missing_files, then upload_dsyms when
\* something is missing, then the next pull.  io says which call fails: none,
\* find_missing_dsym_checksums, or one of upload_dsyms (packaging or upload).
ProcessBatch ==
    /\ pc = "ret"
    /\ ret = "ok"
    /\ batch_num' = batch_num + 1
    /\ all_dsym_checksums' =
          all_dsym_checksums \o [i \in 1..Len(batch) |-> batch[i].checksum]
    /\ \E io \in {"ok", "find", "upload"}, m \in MissingChoices(batch) :
          LET missing == find_missing_files(batch, m)
              reads == zip_up_missing(missing)
              allRead == \A i \in 1..Len(reads) : reads[i].read.res = "read"
              panic == \E i \in 1..Len(reads) : reads[i].read.res = "panic"
          IN  IF io = "find"
              THEN /\ outcome' = Failed /\ pc' = "done"
                   /\ answer' = NoAnswer
                   /\ packaged' = <<>>
                   /\ uploaded' = uploaded
              ELSE IF Len(missing) = 0
              THEN /\ outcome' = outcome /\ pc' = "loop"
                   /\ answer' = [given |-> TRUE, missing |-> m]
                   /\ packaged' = <<>>
                   /\ uploaded' = uploaded
              ELSE IF panic
              THEN /\ outcome' = Panicked /\ pc' = "done"
                   /\ answer' = [given |-> TRUE, missing |-> m]
                   /\ packaged' = reads
                   /\ uploaded' = uploaded
              ELSE IF io = "upload" \/ ~allRead
              THEN /\ outcome' = Failed /\ pc' = "done"
                   /\ answer' = [given |-> TRUE, missing |-> m]
                   /\ packaged' = reads
                   /\ uploaded' = uploaded
              ELSE /\ outcome' = outcome /\ pc' = "loop"
                   /\ answer' = [given |-> TRUE, missing |-> m]
                   /\ packaged' = reads
                   /\ uploaded' = uploaded \cup {missing[i].src : i \in 1..Len(missing)}
    /\ batch' = <<>>
    /\ ret' = "-"
    /\ lastPush' = NoPush
    /\ NoSpend
    /\ UNCHANGED IterVars
    /\ UNCHANGED <<find_uuids, zips, nRoots>>

\* Finish with a fault: missing targets end the run with quiet exit 1 whether
\* or not --require-all is given.
FinishAlways ==
    /\ pc = "paths"
    /\ \E api \in BOOLEAN, require_all \in BOOLEAN :
          LET missing == IF find_uuids.some THEN find_uuids.v \ found_uuids ELSE {}
          IN  outcome' =
                IF ~api THEN Failed
                ELSE IF find_uuids.some /\ missing # {}
                THEN [status |-> "quiet_exit", require_all |-> require_all,
                      reported |-> missing]
                ELSE [status |-> "ok", require_all |-> find_uuids.some /\ require_all,
                      reported |-> {}]
    /\ pc' = "done"
    /\ lastPush' = NoPush
    /\ NotPackaging
    /\ NoSpend
    /\ UNCHANGED <<batch, ret>>
    /\ UNCHANGED IterVars
    /\ UNCHANGED <<find_uuids, zips, batch_num, all_dsym_checksums, nRoots,
                   uploaded>>

\* Finish with a fault: under --require-all a run with targets ends with quiet
\* exit 1 without looking at what is missing.
FinishNoDifference ==
    /\ pc = "paths"
    /\ \E api \in BOOLEAN, require_all \in BOOLEAN :
          LET missing == IF find_uuids.some THEN find_uuids.v \ found_uuids ELSE {}
          IN  outcome' =
                IF ~api THEN Failed
                ELSE IF find_uuids.some /\ require_all
                THEN [status |-> "quiet_exit", require_all |-> require_all,
                      reported |-> missing]
                ELSE [status |-> "ok", require_all |-> find_uuids.some /\ require_all,
                      reported |-> {}]
    /\ pc' = "done"
    /\ lastPush' = NoPush
    /\ NotPackaging
    /\ NoSpend
    /\ UNCHANGED <<batch, ret>>
    /\ UNCHANGED IterVars
    /\ UNCHANGED <<find_uuids, zips, batch_num, all_dsym_checksums, nRoots,
                   uploaded>>

\* Lines 421-467, after the last root: associate_dsyms and
\* trigger_reprocessing (api says whether they succeed), then the check of the
\* targets under --require-all.  outcome.require_all is the flag as read at
\* line 456, which is not reached without --uuid.
Finish ==
    /\ pc = "paths"
    /\ \E api \in BOOLEAN, require_all \in BOOLEAN :
          LET missing == IF find_uuids.some THEN find_uuids.v \ found_uuids ELSE {}
          IN  outcome' =
                IF ~api THEN Failed
                ELSE IF find_uuids.some /\ require_all /\ missing # {}
                THEN [status |-> "quiet_exit", require_all |-> require_all,
                      reported |-> missing]
                ELSE [status |-> "ok", require_all |-> find_uuids.some /\ require_all,
                      reported |-> {}]
    /\ pc' = "done"
    /\ lastPush' = NoPush
    /\ NoSpend
    /\ UNCHANGED <<batch, ret>>
    /\ UNCHANGED IterVars
    /\ NotPackaging
    /\ UNCHANGED <<find_uuids, zips, batch_num, all_dsym_checksums, nRoots,
                   uploaded>>

\* ------------------------------------------------------------ specification
Init ==
    /\ find_uuids \in TargetChoices
    /\ \E p \in Profiles :
          zips = p.zips /\ itemsLeft = p.items /\ fillLeft = p.fill
    /\ found_uuids = {}
    /\ pc = "paths"
    /\ wdDone = FALSE
    /\ open_zip = NoZip
    /\ open_zip_index = NoIndex
    /\ zipEnts = <<>>
    /\ zipEnd = FALSE
    /\ batch = <<>>
    /\ ret = "-"
    /\ batch_num = 0
    /\ all_dsym_checksums = <<>>
    /\ outcome = Running
    /\ walked = <<>>
    /\ nRoots = 0
    /\ nExamined = 0
    /\ lastPush = NoPush
    /\ yieldLog = <<>>
    /\ packaged = <<>>
    /\ answer = NoAnswer
    /\ uploaded = {}

Next ==
    \/ NextPath
    \/ LoopFoundAll
    \/ ZipExhausted
    \/ ZipEntry
    \/ DirEntry
    \/ WalkEnd
    \/ IterEnd
    \/ PullFailed
    \/ ProcessBatch
    \/ Finish

Spec == Init /\ [][Next]_vars

\* BatchIter::next called again after it has returned None (lines 122-128:
\* a new, empty batch; the iterator's fields are as the last pull left them).
\* execute's for loop never does this; another client of the iterator may.
\* ret stays "none" until this pull returns.
PullAgain ==
    /\ pc = "ret"
    /\ ret = "none"
    /\ pc' = "loop"
    /\ batch' = <<>>
    /\ lastPush' = NoPush
    /\ NotPackaging
    /\ NoSpend
    /\ UNCHANGED ret
    /\ UNCHANGED IterVars
    /\ UNCHANGED ExecVars

\* BatchIter::next called again after it has returned a batch, by a client
\* that only takes the batch (lines 122-128: a new, empty batch).
PullOn ==
    /\ pc = "ret"
    /\ ret = "ok"
    /\ pc' = "loop"
    /\ batch' = <<>>
    /\ ret' = "-"
    /\ lastPush' = NoPush
    /\ NotPackaging
    /\ NoSpend
    /\ UNCHANGED IterVars
    /\ UNCHANGED ExecVars

\* The iterators of a run under a client that only pulls: after a batch,
\* after end-of-sequence (again, or a new iterator on the next root), and not
\* after an error.
NextPull ==
    \/ NextPath
    \/ LoopFoundAll
    \/ ZipExhausted
    \/ ZipEntry
    \/ DirEntry
    \/ WalkEnd
    \/ IterEnd
    \/ PullOn
    \/ PullAgain

\* The program is sequential and every step of it runs to its end, so a step
\* that can be taken is taken.
PullSpec == Init /\ [][NextPull]_vars /\ WF_vars(NextPull)

\* The position in walked of the root of the walk in progress.
LastRoot ==
    CHOOSE i \in 1..Len(walked) :
       walked[i] = RootItem /\ \A j \in (i + 1)..Len(walked) : walked[j] # RootItem

\* DSymRef::add_to_archive called between two pulls on a record of a batch
\* the client has kept: the batch just returned or an earlier one of the
\* same iterator (the records of an iterator share that iterator's cell).
\* The panic of line 60 ends the program.
ReadHeld ==
    /\ pc = "ret"
    /\ \E k \in 1..Len(yieldLog) : \E i \in 1..Len(yieldLog[k]) :
          LET rec == yieldLog[k][i]
              a == add_to_archive(rec)
          IN  /\ rec.src > LastRoot
              /\ packaged' = <<[rec |-> rec, read |-> a]>>
              /\ IF a.res = "panic"
                 THEN pc' = "done" /\ outcome' = Panicked
                 ELSE pc' = pc /\ outcome' = outcome
    /\ answer' = NoAnswer
    /\ lastPush' = NoPush
    /\ NoSpend
    /\ UNCHANGED <<batch, ret>>
    /\ UNCHANGED IterVars
    /\ UNCHANGED <<find_uuids, zips, batch_num, all_dsym_checksums, nRoots,
                   uploaded>>

\* A client that pulls and that may keep the batches and read their records
\* later, on trees of one entry more than MaxItems, archive descent on.
InitHold ==
    /\ find_uuids \in TargetChoices
    /\ zips = TRUE
    /\ itemsLeft = MaxItems + 1
    /\ fillLeft = 0
    /\ found_uuids = {}
    /\ pc = "paths"
    /\ wdDone = FALSE
    /\ open_zip = NoZip
    /\ open_zip_index = NoIndex
    /\ zipEnts = <<>>
    /\ zipEnd = FALSE
    /\ batch = <<>>
    /\ ret = "-"
    /\ batch_num = 0
    /\ all_dsym_checksums = <<>>
    /\ outcome = Running
    /\ walked = <<>>
    /\ nRoots = 0
    /\ nExamined = 0
    /\ lastPush = NoPush
    /\ yieldLog = <<>>
    /\ packaged = <<>>
    /\ answer = NoAnswer
    /\ uploaded = {}

NextHold == NextPull \/ ReadHeld

HoldSpec == InitHold /\ [][NextHold]_vars

\* ------------------------------------------------------------ properties
\* The identifiers embedded in the plain files and archive entries read so far.
Present ==
    UNION {walked[i].r.u : i \in {j \in 1..Len(walked) :
                                    walked[j].k \in {"file", "entry"}}}

\* The Found-Identifiers Set holds every target identifier.
TargetsFound == find_uuids.some /\ find_uuids.v \subseteq found_uuids

\* A pull has just returned a batch.
Yielded == pc = "ret" /\ ret = "ok"

\* The entry read by the step just taken, when the step read a new one.
ReadsNew == Len(walked') = Len(walked) + 1 /\ walked'[Len(walked')] # RootItem
NewItem == walked'[Len(walked')]

\* C1: every batch a pull returns holds at least 1 and at most BATCH_SIZE
\* records; a pull that has no record to return returns end-of-sequence.
C1_BatchLength ==
    /\ Yielded => Len(batch) >= 1 /\ Len(batch) <= BATCH_SIZE
    /\ (pc = "ret" /\ ret = "none") => Len(batch) = 0
    /\ \A i \in 1..Len(yieldLog) :
          Len(yieldLog[i]) >= 1 /\ Len(yieldLog[i]) <= BATCH_SIZE

C1_Witness == Yielded /\ Len(batch) = BATCH_SIZE

\* C2: while a yielded batch is with execute (from the pull's return to the
\* next pull), every ZipFile record of it points at the archive the shared
\* cell holds, which is the archive the record was found in, and at its own
\* entry; the reads add_to_archive does for it never find the cell empty and
\* never read another source than the record's.
C2_ArchiveOpen ==
    /\ Yielded =>
          \A i \in 1..Len(batch) :
             batch[i].var = "ZipFile" =>
                /\ open_zip.some
                /\ open_zip.gen = batch[i].gen
                /\ batch[i].idx < Len(zipEnts)
                /\ zipEnts[batch[i].idx + 1] = batch[i].src
    /\ \A i \in 1..Len(packaged) :
          /\ packaged[i].read.res = "read"
          /\ packaged[i].read.src = packaged[i].rec.src

C2_Witness ==
    \E i \in 1..Len(packaged) :
       /\ packaged[i].rec.var = "ZipFile"
       /\ packaged[i].read.res = "read"
       /\ packaged[i].read.gen = packaged[i].rec.gen

\* The matching condition: an extractor answer that makes a file eligible.
Eligible(r) ==
    /\ r.t = "ok"
    /\ IF find_uuids.some THEN r.u \cap find_uuids.v # {} ELSE r.u # {}

\* C3: every eligible file or archive entry whose record can be built (its
\* checksum is computed) goes through push_ref, and push_ref appends the
\* record to the pending batch exactly if one of its identifiers is not yet
\* in the Found-Identifiers Set; if it is appended, all its identifiers are
\* in the set afterwards; if not, the set and the batch are unchanged and the
\* loop goes on.  The set is the one of the whole run: no step, of any pull
\* or root, removes an identifier from it.
C3_Dedup ==
    [][/\ found_uuids \subseteq found_uuids'
       /\ (ReadsNew /\ NewItem.k \in {"file", "entry"} /\ Eligible(NewItem.r)
           /\ NewItem.ck) =>
             lastPush'.called /\ lastPush'.uuids = NewItem.r.u
       /\ lastPush'.called =>
             LET S == lastPush'.uuids
                 new == \E u \in S : u \notin found_uuids
             IN  /\ new => /\ Len(batch') = Len(batch) + 1
                           /\ SubSeq(batch', 1, Len(batch)) = batch
                           /\ batch'[Len(batch')].uuids = S
                           /\ S \subseteq found_uuids'
                 /\ ~new => /\ batch' = batch
                            /\ found_uuids' = found_uuids
                            /\ pc' = "loop"]_vars

C3_Witness ==
    /\ lastPush.called
    /\ ~lastPush.kept
    /\ nRoots = MaxRoots
    /\ \E i \in 1..Len(yieldLog) : yieldLog[i][1].uuids = lastPush.uuids

\* C4.  The scenario: one root that holds (besides directories) the plain
\* file a.dSYM/bin with {U1} and the archive b.zip with the one entry lib
\* with {U1, U2}; no target set, archive descent on; the root has been walked
\* to its end.
Files == SelectSeq(walked, LAMBDA it : it.k # "dir")
ScenarioRun == pc = "paths" /\ nRoots = 1 /\ wdDone /\ ~find_uuids.some /\ zips
ScenarioFileFirst ==
    /\ ScenarioRun
    /\ Files = <<RootItem, Item("file", OkRes({1}), TRUE),
                 Item("zip", NoMacho, TRUE), Item("entry", OkRes({1, 2}), TRUE)>>
ScenarioZipFirst ==
    /\ ScenarioRun
    /\ Files = <<RootItem, Item("zip", NoMacho, TRUE),
                 Item("entry", OkRes({1, 2}), TRUE), Item("file", OkRes({1}), TRUE)>>

\* C4 as claimed: the scenario yields exactly one batch, of 2 records, and
\* ends with the Found-Identifiers Set {U1, U2}.
C4_AsClaimed ==
    (ScenarioFileFirst \/ ScenarioZipFirst) =>
       /\ Len(yieldLog) = 1
       /\ Len(yieldLog[1]) = 2
       /\ found_uuids = {1, 2}

\* C4 amended: when the walk meets a.dSYM/bin before b.zip, the scenario
\* yields two batches of one record each, first a.dSYM/bin, then b.zip!lib;
\* when it meets b.zip first, it yields one batch holding b.zip!lib alone.
\* Either way it ends with the Found-Identifiers Set {U1, U2}.
C4_Scenario ==
    /\ ScenarioFileFirst =>
          /\ Len(yieldLog) = 2
          /\ Len(yieldLog[1]) = 1 /\ yieldLog[1][1].var = "FsFile"
          /\ yieldLog[1][1].uuids = {1}
          /\ Len(yieldLog[2]) = 1 /\ yieldLog[2][1].var = "ZipFile"
          /\ yieldLog[2][1].uuids = {1, 2}
          /\ found_uuids = {1, 2}
    /\ ScenarioZipFirst =>
          /\ Len(yieldLog) = 1
          /\ Len(yieldLog[1]) = 1 /\ yieldLog[1][1].var = "ZipFile"
          /\ yieldLog[1][1].uuids = {1, 2}
          /\ found_uuids = {1, 2}

C4_Witness == ScenarioFileFirst

\* C5: once the Found-Identifiers Set holds every target, no step examines
\* an entry (in this pull, a later pull or a later root), and a pending
\* batch that is not empty is returned as it is.
C5_EarlyStop ==
    [][TargetsFound =>
          /\ nExamined' = nExamined
          /\ (pc = "loop" /\ Len(batch) > 0) =>
                pc' = "ret" /\ ret' = "ok" /\ batch' = batch]_vars

C5_Witness ==
    /\ TargetsFound
    /\ Yielded
    /\ wdDone = FALSE
    /\ itemsLeft > 0

\* C6: with a target set and archive descent on, when every iterator started
\* has been pulled to its end and every target identifier is embedded in a
\* plain file or an archive entry of the scanned roots, the Found-Identifiers
\* Set holds every target identifier.
C6_TargetsComplete ==
    (pc = "paths" /\ find_uuids.some /\ zips /\ find_uuids.v \subseteq Present)
       => find_uuids.v \subseteq found_uuids

C6_Witness ==
    /\ pc = "paths"
    /\ zips
    /\ find_uuids = SomeOpt({1, 2})
    /\ TargetsFound
    /\ \E i \in 1..Len(yieldLog) : yieldLog[i][1].var = "ZipFile"
    /\ \E i \in 1..Len(yieldLog) : yieldLog[i][1].var = "FsFile"

\* The step just taken read a file that starts with the zip magic and that
\* ZipArchive::new rejects, archive descent being on.
ReadsBadZip == ReadsNew /\ zips /\ NewItem.k = "badzip"

Extracted ==
    /\ ReadsNew
    /\ \/ NewItem.k \in {"file", "entry"}
       \/ NewItem.k \in {"zip", "badzip"} /\ ~zips

\* C8: when the extractor answers "not a recognized binary" for an entry, the
\* pull returns no error, the pending batch and the Found-Identifiers Set are
\* unchanged and the traversal goes on with the next entry; any other error
\* of the extractor makes the pull return an error.
C8_NoMachoSkips ==
    [][/\ (Extracted /\ NewItem.r = NoMacho) =>
             /\ pc' = "loop" /\ ret' = ret
             /\ batch' = batch /\ found_uuids' = found_uuids
             /\ (open_zip_index # NoIndex => open_zip_index' = open_zip_index + 1)
       /\ (Extracted /\ NewItem.r = Fatal) => pc' = "ret" /\ ret' = "err"]_vars

C8_Witness ==
    /\ pc = "loop"
    /\ Len(batch) > 0
    /\ open_zip_index = 2
    /\ walked[Len(walked)] = Item("entry", NoMacho, TRUE)

\* C9: after a pull has returned an error, execute's one step ends it with a
\* failed result: no entry is examined, no root is taken, nothing is checked
\* for missing, packaged or uploaded, and what was uploaded stays uploaded.
\* Once execute has ended it takes no step.
C9_ErrorStops ==
    [][/\ pc # "done"
       /\ (pc = "ret" /\ ret = "err") =>
             /\ pc' = "done" /\ outcome'.status = "failed"
             /\ nExamined' = nExamined /\ walked' = walked /\ nRoots' = nRoots
             /\ all_dsym_checksums' = all_dsym_checksums
             /\ packaged' = <<>> /\ uploaded' = uploaded]_vars

C9_Witness ==
    /\ pc = "done"
    /\ ret = "err"
    /\ outcome.status = "failed"
    /\ uploaded # {}
    /\ nRoots < MaxRoots

\* The run has gone through the final check of the targets.
Completed == pc = "done" /\ outcome.status \in {"ok", "quiet_exit"}
U3Absent ==
    Completed /\ nRoots >= 1 /\ find_uuids = SomeOpt({3}) /\ 3 \notin Present

C11_RequireAll ==
    Completed =>
       LET unmet == IF find_uuids.some THEN find_uuids.v \ found_uuids ELSE {}
       IN  /\ outcome.status = "quiet_exit" <=>
                (find_uuids.some /\ outcome.require_all /\ unmet # {})
           /\ outcome.status = "quiet_exit" => outcome.reported = unmet
           /\ outcome.status = "ok" => outcome.reported = {}

C11_Witness ==
    /\ Completed
    /\ outcome.status = "ok"
    /\ ~outcome.require_all
    /\ find_uuids = SomeOpt({1, 2})
    /\ found_uuids = {1}
    /\ nRoots = MaxRoots

\* The records yielded so far, in order.
RECURSIVE Flatten(_)
Flatten(ss) == IF Len(ss) = 0 THEN <<>> ELSE Head(ss) \o Flatten(Tail(ss))
YieldedRecs == Flatten(yieldLog)

\* C12: every record of every yielded batch carries the identifiers the
\* extractor found in its source; that set is not empty, and with a target
\* set it shares an identifier with the target set.  So no file or archive
\* entry whose identifiers are all outside the target set is the source of a
\* yielded record.
C12_Matching ==
    [](LET recs == YieldedRecs
           srcs == {recs[i].src : i \in 1..Len(recs)}
       IN  /\ \A i \in 1..Len(recs) :
                 /\ recs[i].uuids # {}
                 /\ find_uuids.some => recs[i].uuids \cap find_uuids.v # {}
                 /\ walked[recs[i].src].r = OkRes(recs[i].uuids)
           /\ \A j \in 1..Len(walked) :
                 (find_uuids.some /\ walked[j].r.u \cap find_uuids.v = {}) =>
                    j \notin srcs)

C12_Witness ==
    /\ find_uuids = SomeOpt({1, 2})
    /\ \E i \in 1..Len(YieldedRecs) :
          YieldedRecs[i].uuids = {1} /\ YieldedRecs[i].var = "ZipFile"
    /\ \E j \in 1..Len(walked) : walked[j] = Item("file", OkRes({3}), TRUE)
    /\ pc = "paths"

\* The identifiers carried by the first n of the records recs.
CarriedBy(recs, n) == UNION {recs[j].uuids : j \in 1..n}

\* C13 as claimed: no identifier is carried by two yielded records.
C13_AsClaimed ==
    LET recs == YieldedRecs
    IN  \A i \in 1..Len(recs) : recs[i].uuids \cap CarriedBy(recs, i - 1) = {}

\* C13 amended: every yielded record carries at least one identifier that no
\* record yielded before it carries (an identifier that was not in the
\* Found-Identifiers Set when the record was kept); its other identifiers may
\* be carried by earlier records too.  Every identifier a yielded record
\* carries is in the Found-Identifiers Set.
C13_NewIdentifier ==
    [](LET recs == YieldedRecs
       IN  /\ \A i \in 1..Len(recs) :
                 ~(recs[i].uuids \subseteq CarriedBy(recs, i - 1))
           /\ CarriedBy(recs, Len(recs)) \subseteq found_uuids)

C13_Witness ==
    \E i \in 1..Len(YieldedRecs) :
       /\ YieldedRecs[i].uuids = {1, 2}
       /\ CarriedBy(YieldedRecs, i - 1) = {1}

\* The records add_to_archive was called on in the step just taken, in order.
PackagedRecs == [i \in 1..Len(packaged) |-> packaged[i].rec]

\* s is a subsequence of t: its elements at increasing positions of t.
RECURSIVE IsSubSeq(_, _)
IsSubSeq(s, t) ==
    IF Len(s) = 0 THEN TRUE
    ELSE IF Len(t) = 0 THEN FALSE
    ELSE IF Head(s) = Head(t) THEN IsSubSeq(Tail(s), Tail(t))
    ELSE IsSubSeq(s, Tail(t))

\* C14: when execute handles a yielded batch and the server answers with the
\* set of missing checksums, the records packaged are records of the batch
\* whose checksum is in that set, in the batch's order; when the step
\* succeeds they are all such records, each read from its own source, and
\* exactly their sources are added to what is uploaded; when no record of the
\* batch has its checksum in the set, nothing is packaged or uploaded.
C14_OnlyMissing ==
    [][(pc = "ret" /\ ret = "ok" /\ answer'.given) =>
          LET m == answer'.missing
              want == {i \in 1..Len(batch) : batch[i].checksum \in m}
              got == PackagedRecs'
          IN  /\ IsSubSeq(got, batch)
              /\ \A i \in 1..Len(got) : got[i].checksum \in m
              /\ pc' = "loop" =>
                    /\ Len(got) = Cardinality(want)
                    /\ \A i \in want : \E j \in 1..Len(got) : got[j] = batch[i]
                    /\ \A j \in 1..Len(got) : packaged'[j].read.src = got[j].src
                    /\ uploaded' = uploaded \cup {batch[i].src : i \in want}
              /\ pc' # "loop" => uploaded' = uploaded
              /\ want = {} => packaged' = <<>> /\ uploaded' = uploaded /\ pc' = "loop"]_vars

C14_Witness ==
    /\ pc = "loop"
    /\ answer.given
    /\ Len(packaged) = 2
    /\ Len(yieldLog[Len(yieldLog)]) = 3
    /\ PackagedRecs = Tail(yieldLog[Len(yieldLog)])

\* C15: the batch sequence ends and its end is final.  Once a pull has
\* returned end-of-sequence, a later pull of the same iterator reads no
\* entry, keeps no record, yields no batch and returns end-of-sequence again.
\* And under a client that keeps pulling, from some point on the last pull
\* has returned end-of-sequence (or an error, after which the client stops):
\* batches are yielded only finitely often.
C15_FiniteAndFinal ==
    /\ [][(ret = "none" /\ pc \in {"ret", "loop"} /\ pc' \in {"ret", "loop"}) =>
             /\ ret' = "none"
             /\ batch' = <<>>
             /\ walked' = walked /\ nExamined' = nExamined
             /\ yieldLog' = yieldLog /\ found_uuids' = found_uuids]_vars
    /\ <>[](ret \in {"none", "err"})

C15_Witness ==
    /\ pc = "loop"
    /\ ret = "none"
    /\ wdDone
    /\ \E i \in 1..Len(yieldLog) :
          Len(yieldLog[i]) = BATCH_SIZE /\ yieldLog[i][1].var = "ZipFile"

\* A pull has just returned a batch that a kept record brought to the cap.
CapYield == Yielded /\ Len(batch) = BATCH_SIZE

\* The step just taken examined an entry that had been examined before.
ExaminesAgain == nExamined' = nExamined + 1 /\ walked' = walked

\* C16 as claimed: a batch brought to the size cap is yielded at once; when
\* its last record is an archive entry, the archive index has then advanced
\* past that entry; and the pull that follows starts with an empty batch and
\* examines first the entry after it: no step examines an entry a second time.
C16_AsClaimed ==
    /\ [][(lastPush'.kept /\ Len(batch') >= BATCH_SIZE) => CapYield']_vars
    /\ [](CapYield /\ batch[BATCH_SIZE].var = "ZipFile" =>
             open_zip_index = batch[BATCH_SIZE].idx + 1)
    /\ [][~ExaminesAgain]_vars

\* The step just taken read a file that starts with the zip magic and opened
\* it as an archive.
OpensZip == ReadsNew /\ zips /\ NewItem.k = "zip"

\* C17: when the walk opens an archive while the pending batch is not empty,
\* the pull returns that batch, unchanged, in the same step: the archive is
\* in the shared cell at index 0 and none of its entries has been examined.
\* The first entry of an archive is only ever examined at index 0 and with
\* no record of before the archive pending, that is, by the following pull.
C17_YieldOnOpen ==
    [][/\ (OpensZip /\ Len(batch) > 0) =>
             /\ pc' = "ret" /\ ret' = "ok" /\ batch' = batch
             /\ open_zip'.some /\ open_zip_index' = 0 /\ zipEnts' = <<>>
             /\ nExamined' = nExamined + 1
       /\ (Len(zipEnts) = 0 /\ Len(zipEnts') = 1) =>
             /\ open_zip_index = 0
             /\ batch = <<>>
             /\ \A i \in 1..Len(batch') : batch'[i].idx = 0]_vars

C17_Witness ==
    /\ pc = "loop"
    /\ Len(yieldLog) = 1
    /\ yieldLog[1][1].var = "FsFile"
    /\ Len(batch) = 1
    /\ batch[1].var = "ZipFile"
    /\ batch[1].idx = 0

\* All records of b are plain files, or all are entries found in one and the
\* same opening of one archive.
Homogeneous(b) ==
    \A i \in 1..Len(b) : b[i].var = b[1].var /\ b[i].gen = b[1].gen

\* C18: every yielded batch, and the pending batch at every point of a pull,
\* is homogeneous: only plain-file records, or only records of entries of the
\* one archive the shared cell holds; a ZipFile record names the archive by
\* the directory entry that was opened, a plain-file record names none.
C18_Homogeneous ==
    /\ \A k \in 1..Len(yieldLog) : Homogeneous(yieldLog[k])
    /\ Homogeneous(batch)
    /\ \A i \in 1..Len(batch) :
          IF batch[i].var = "ZipFile"
          THEN open_zip.some /\ batch[i].gen = open_zip.gen
               /\ walked[batch[i].gen].k = "zip"
          ELSE batch[i].gen = 0

C18_Witness ==
    /\ Len(yieldLog) = 2
    /\ Len(yieldLog[1]) = BATCH_SIZE
    /\ yieldLog[1][1].var = "ZipFile"
    /\ yieldLog[2][1].gen = yieldLog[1][1].gen
    /\ pc = "paths"

\* C19: no two yielded records of a run have the same source (the same plain
\* file, or the same entry of the same opening of an archive), also when an
\* entry is examined a second time after a pull ended at the size cap; and no
\* two carry the same identifier set, so a source that is presented again
\* with the same extractor result is not yielded again.
C19_NoSourceTwice ==
    [](LET recs == YieldedRecs
       IN  /\ Cardinality({recs[i].src : i \in 1..Len(recs)}) = Len(recs)
           /\ Cardinality({recs[i].uuids : i \in 1..Len(recs)}) = Len(recs)
           /\ \A i \in 1..Len(recs) : walked[recs[i].src].k \in {"file", "entry"})

C19_Witness ==
    /\ Len(yieldLog) = 2
    /\ Len(yieldLog[1]) = BATCH_SIZE
    /\ yieldLog[1][1].var = "ZipFile"
    /\ yieldLog[2][1].idx = BATCH_SIZE
    /\ nExamined + nRoots > Len(walked)

\* A read of a ZipFile record made when the shared cell did not hold the
\* archive the record was found in.
StaleRead(p) == p.rec.var = "ZipFile" /\ p.read.gen # p.rec.gen

\* C20 as claimed: a read of an archive record made after the iterator has
\* closed or replaced the record's archive fails (with the panic "zip file
\* went away", or otherwise) and copies no bytes: the bytes a read copies are
\* those of the record's own source.
C20_AsClaimed ==
    \A i \in 1..Len(packaged) :
       /\ StaleRead(packaged[i]) => packaged[i].read.res # "read"
       /\ packaged[i].read.res = "read" =>
             packaged[i].read.src = packaged[i].rec.src

\* A read made after the record's archive was replaced has copied the entry
\* of the same index of the archive that replaced it, an entry with other
\* content.
C20_ReplacedReads ==
    \E i \in 1..Len(packaged) :
       /\ StaleRead(packaged[i])
       /\ packaged[i].read.res = "read"
       /\ packaged[i].read.src # packaged[i].rec.src
       /\ walked[packaged[i].read.src].r # walked[packaged[i].rec.src].r
       /\ ret = "ok"

====
